---- MODULE Spec2Model ----
(***************************************************************************)
(* GrafanaAPIClient (src/index.js): a websocket client that identifies     *)
(* itself to an aggregator, reconnects with a growing delay and correlates *)
(* remote-eval requests with their replies.                                *)
(*                                                                         *)
(* The client object and the sockets it created are threaded through the   *)
(* handlers as one record ("world"), so that one transport signal can run  *)
(* several listeners in sequence exactly as EventEmitter.emit does.        *)
(***************************************************************************)
EXTENDS Integers, Sequences, FiniteSets, TLC

\* ------------------------------------------------------------------ bounds
MaxConns == 2       \* sockets the client may create in one run
MaxMsgs == 3        \* unsolicited messages and pings delivered in one run
MaxCalls == 2       \* send / eval / reply calls made by the consumer
MaxEvals == 2       \* remoteEval calls that pass the connection check
MaxClock == 2       \* values Date.now() takes in one run

Socks == 1 .. MaxConns
NoSock == 0         \* this.ws is null or undefined

RECURSIVE Pow(_, _)
Pow(b, n) == IF n = 0 THEN 1 ELSE b * Pow(b, n - 1)

\* waitTime is kept in units of 1/WaitUnit seconds. Every socket delivers at
\* most one error and one close signal, so waitTime is halved at most
\* 2 * MaxConns times and every value stays an integer number of units.
WaitUnit == Pow(2, 2 * MaxConns)
BaseWait == 3 * WaitUnit

\* --------------------------------------------------------------- messages
HELLO == 0
READY_ACK == 1
IDENTIFY == 2
STATS == 3
SEND_ACK == 4
ERROR_OP == 6
CLUSTER_DATA_UPDATE == 7
CLUSTER_STATUS_UPDATE == 8
REMOTE_EVAL == 9
UnknownOp == 99
MalformedOp == -1   \* a frame JSON.parse cannot read
PONG == 10          \* not an opcode: a websocket pong frame

ClusterIDs == {7, 8}
Values == {1, 2}
ForeignUID == MaxClock + 1      \* a uid this client never issues
UIDs == 1 .. (MaxClock + 1)
Hole == 0                       \* an array slot emptied by `delete`

Msg(o, i, u, d) == [op |-> o, id |-> i, uid |-> u, data |-> d]

Msgs ==
    {Msg(o, 0, 0, 0) : o \in {HELLO, READY_ACK, SEND_ACK, CLUSTER_DATA_UPDATE,
                              UnknownOp, MalformedOp}}
    \cup {Msg(CLUSTER_STATUS_UPDATE, 0, 0, d) : d \in {0, 1}}
    \cup {Msg(REMOTE_EVAL, i, u, d) : i \in ClusterIDs, u \in UIDs, d \in Values}

VARIABLES
    ws,                 \* this.ws: NoSock or the socket last assigned
    reconnect,          \* this.reconnect
    waitTime,           \* this.waitTime, in 1/WaitUnit seconds
    remoteEvalUIDs,     \* this.__remoteEvalUIDs: array of uids, with holes
    getRemoteEvalData,  \* this.__getRemoteEvalData: eval whose listener it holds
    callbacks,          \* reply callbacks handed to `remoteEval` listeners
    timers,             \* reconnect timers armed by setTimeout and not yet fired
    sock,               \* the sockets created so far
    evals,              \* the promises returned by remoteEval
    crashed,            \* an exception escaped an event handler
    errListener,        \* the consumer registered an `error` listener
    now,                \* Date.now()
    hist,               \* history: counters the properties are stated on
    last,               \* the last call of the consumer and its outcome
    msgs,               \* inbound messages and pings delivered so far
    calls               \* consumer send / eval / reply calls so far

vars == <<ws, reconnect, waitTime, remoteEvalUIDs, getRemoteEvalData, callbacks,
          timers, sock, evals, crashed, errListener, now, hist, last, msgs, calls>>

\* ---------------------------------------------------------------- sockets
NoFrames == [o \in {IDENTIFY, STATS, ERROR_OP, REMOTE_EVAL, PONG} |-> 0]

NewSock == [rs |-> "unborn",        \* unborn, connecting, open, closing, aborted, errored, closed
            listeners |-> <<>>,     \* `message` listeners in registration order: 0 is the
                                    \* dispatching listener, e > 0 the listener of eval e
            closeCode |-> 0,        \* code the client passed to close()
            sent |-> NoFrames,      \* frames transmitted, per kind
            hs |-> "await_hello",   \* handshake progress seen on this connection
            hello |-> 0,            \* HELLO messages dispatched
            ready |-> 0,            \* `ready` events emitted for messages of this socket
            pings |-> 0,            \* pings received
            lastEval |-> Msg(REMOTE_EVAL, 0, 0, 0),
                                    \* the last op-9 frame transmitted
            early |-> FALSE,        \* a steady-state event was emitted for a message of
                                    \* this socket before its handshake had completed
            unk |-> "none"]         \* an unhandled opcode arrived: "ready" when the
                                    \* connection was Ready, else "other"

\* readyState as the ws library reports it
ReadyState(r) ==
    CASE r = "connecting" -> "CONNECTING"
      [] r = "open" -> "OPEN"
      [] r \in {"closing", "aborted", "errored"} -> "CLOSING"
      [] OTHER -> "CLOSED"

NoCall == [call |-> "none", result |-> "none", frames |-> 0]

NoHist == [discOpen |-> 0,      \* disconnect signals since the last open signal
           discHs |-> 0,        \* disconnect signals since the last completed handshake
           connects |-> 0,      \* sockets created
           reqs |-> 0,          \* REMOTE_EVAL messages that reached a dispatching
                                \* listener with a uid not in the pending array
           events |-> 0]        \* `remoteEval` events emitted

World == [ws |-> ws, reconnect |-> reconnect, waitTime |-> waitTime,
          remoteEvalUIDs |-> remoteEvalUIDs, getRemoteEvalData |-> getRemoteEvalData,
          callbacks |-> callbacks, timers |-> timers, sock |-> sock, evals |-> evals,
          crashed |-> crashed, hist |-> hist, errListener |-> errListener,
          now |-> now,
          exc |-> FALSE,        \* the code being run has thrown
          promise |-> "pending"]    \* settlement of the promise being built

Commit(W) ==
    /\ ws' = W.ws
    /\ reconnect' = W.reconnect
    /\ waitTime' = W.waitTime
    /\ remoteEvalUIDs' = W.remoteEvalUIDs
    /\ getRemoteEvalData' = W.getRemoteEvalData
    /\ callbacks' = W.callbacks
    /\ timers' = W.timers
    /\ sock' = W.sock
    /\ evals' = W.evals
    /\ crashed' = W.crashed
    /\ hist' = W.hist

\* the running code throws: the rest of it is skipped
Throw(W) == [W EXCEPT !.exc = TRUE]

\* an exception that escapes a listener called by the transport is uncaught
Uncaught(W) == IF W.exc THEN [W EXCEPT !.crashed = TRUE] ELSE W

Init ==
    /\ ws = NoSock
    /\ reconnect = TRUE
    /\ waitTime = BaseWait
    /\ remoteEvalUIDs = <<>>
    /\ getRemoteEvalData = 0
    /\ callbacks = {}
    /\ timers = 0
    /\ sock = [s \in Socks |-> NewSock]
    /\ evals = <<>>
    /\ crashed = FALSE
    /\ errListener \in BOOLEAN
    /\ now = 1
    /\ hist = NoHist
    /\ last = NoCall
    /\ msgs = 0
    /\ calls = 0

\* ------------------------------------------------------ the ws library
\* a frame leaves on socket t
Transmit(W, t, kind, frame) ==
    [W EXCEPT !.sock[t].sent[kind] = @ + 1,
              !.sock[t].lastEval = IF kind = REMOTE_EVAL THEN frame ELSE @]

\* this.ws.send(frame) without a callback. On a socket that is closing the
\* library drops the frame or throws, depending on its version (strict).
SendNoCallback(W, kind, frame, strict) ==
    IF W.ws = NoSock THEN Throw(W)
    ELSE LET r == ReadyState(W.sock[W.ws].rs) IN
         CASE r = "CONNECTING" -> Throw(W)
           [] r = "OPEN" -> Transmit(W, W.ws, kind, frame)
           [] OTHER -> IF strict THEN Throw(W) ELSE W

\* resolve() or reject() of the promise being built: the first one counts
Settle(W, r) == IF W.promise = "pending" THEN [W EXCEPT !.promise = r] ELSE W

\* this.ws.send(frame, cb): cb settles the promise when the transport has
\* written the frame (accepted) or failed to write it
SendWithCallback(W, kind, frame, accepted) ==
    IF W.ws = NoSock THEN Throw(W)
    ELSE LET r == ReadyState(W.sock[W.ws].rs) IN
         CASE r = "CONNECTING" -> Throw(W)
           [] r = "OPEN" -> IF accepted
                            THEN Settle(Transmit(W, W.ws, kind, frame), "resolved")
                            ELSE Settle(W, "wsError")
           [] OTHER -> Settle(W, "wsError")

\* new Promise(executor): an exception of the executor rejects the promise
Executor(W) == IF W.exc THEN Settle([W EXCEPT !.exc = FALSE], "exception") ELSE W

\* !this.ws || this.ws.readyState !== this.ws.OPEN
NotOpen(W) == W.ws = NoSock \/ ReadyState(W.sock[W.ws].rs) # "OPEN"

\* socket.close(code): a handshake in progress is aborted (an error signal
\* and a close signal follow), an open socket starts the closing handshake,
\* a socket already closing or closed is left alone.
WsClose(W, t, code) ==
    CASE W.sock[t].rs = "connecting" -> [W EXCEPT !.sock[t].rs = "aborted"]
      [] W.sock[t].rs = "open" ->
            [W EXCEPT !.sock[t].rs = "closing", !.sock[t].closeCode = code]
      [] OTHER -> W

\* the connection state the design speaks of
ConnState(W) ==
    IF W.ws = NoSock THEN "nohandle"
    ELSE LET r == W.sock[W.ws].rs IN
         CASE r = "connecting" -> "connecting"
           [] r = "open" -> IF W.sock[W.ws].hs = "ready" THEN "ready" ELSE "handshaking"
           [] OTHER -> "closing"

\* ------------------------------------------------------------- connect()
\* this.ws = new WebSocket(this.path), with its open/error/close listeners
Connect(W) ==
    LET s == W.hist.connects + 1 IN
    [W EXCEPT !.ws = s,
              !.sock[s].rs = "connecting",
              !.hist.connects = s]

\* (a slip: the delay doubles)
GrowDouble(w) == w + w

\* waitTime += waitTime / 2
Grow(w) == w + (w \div 2)

\* (a slip: the open listener leaves waitTime alone)
OnOpenKeepsWait(W, s) ==
    LET W1 == [W EXCEPT !.hist.discOpen = 0]
    IN  IF W1.ws = NoSock THEN Throw(W1)
        ELSE [W1 EXCEPT !.sock[W1.ws].listeners = Append(@, 0)]

\* the `open` listener of socket s
OnOpen(W, s) ==
    LET W1 == [W EXCEPT !.waitTime = BaseWait,
                        !.hist.discOpen = 0]
    IN  IF W1.ws = NoSock THEN Throw(W1)
        ELSE [W1 EXCEPT !.sock[W1.ws].listeners = Append(@, 0)]

\* the `error` listener of socket s
OnError(W, s) ==
    LET W1 == [W EXCEPT !.waitTime = Grow(@),
                        !.ws = NoSock,
                        !.timers = @ + 1,
                        !.hist.discOpen = @ + 1,
                        !.hist.discHs = @ + 1]
    IN  IF W1.errListener THEN W1 ELSE Throw(W1)

\* (a slip: the close listener ignores this.reconnect)
OnCloseAlwaysRearms(W, s) ==
    LET W1 == [W EXCEPT !.waitTime = Grow(@),
                        !.ws = NoSock,
                        !.timers = @ + 1,
                        !.hist.discOpen = @ + 1,
                        !.hist.discHs = @ + 1]
    IN  IF W1.errListener THEN W1 ELSE Throw(W1)

\* the `close` listener of socket s
OnClose(W, s) ==
    LET W1 == [W EXCEPT !.waitTime = Grow(@),
                        !.ws = NoSock,
                        !.timers = IF W.reconnect THEN @ + 1 ELSE @,
                        !.hist.discOpen = @ + 1,
                        !.hist.discHs = @ + 1]
    IN  IF W1.errListener THEN W1 ELSE Throw(W1)

\* ------------------------------------------------- the message listeners
IdentifyFrame == Msg(IDENTIFY, 0, 0, 0)

RECURSIVE IndexOf(_, _, _)
\* Array.prototype.indexOf: the first index holding x, 0 when there is none
IndexOf(a, x, i) ==
    IF i > Len(a) THEN 0
    ELSE IF a[i] = x THEN i ELSE IndexOf(a, x, i + 1)

Includes(a, x) == IndexOf(a, x, 1) # 0

RECURSIVE Without(_, _)
\* EventEmitter.off: the listener list without listener x
Without(ls, x) ==
    IF ls = <<>> THEN <<>>
    ELSE IF ls[Len(ls)] = x THEN SubSeq(ls, 1, Len(ls) - 1)
    ELSE Append(Without(SubSeq(ls, 1, Len(ls) - 1), x), ls[Len(ls)])

\* case 0: HELLO
OnHello(W, s, strict) ==
    LET W1 == [W EXCEPT !.sock[s].hello = @ + 1]
        W2 == SendNoCallback(W1, IDENTIFY, IdentifyFrame, strict)
    IN  IF W2.exc THEN W2
        ELSE IF W2.ws = s /\ W2.sock[s].rs = "open" /\ W2.sock[s].hs = "await_hello"
             THEN [W2 EXCEPT !.sock[s].hs = "identifying"]
             ELSE W2

\* case 1: READY_ACK
OnReadyAck(W, s) ==
    LET W1 == [W EXCEPT !.sock[s].ready = @ + 1]
    IN  IF W.sock[s].hs = "identifying"
        THEN [W1 EXCEPT !.sock[s].hs = "ready",
                        !.hist.discHs = 0]
        ELSE W1

\* this.emit(event) of `send`, `clustersDataUpdate`, `clusterStatusUpdate`
\* or `remoteEval` for a message of socket s
EmitSteady(W, s) ==
    IF W.sock[s].hs # "ready" THEN [W EXCEPT !.sock[s].early = TRUE] ELSE W

\* case 9: REMOTE_EVAL
OnRemoteEval(W, s, m) ==
    IF Includes(W.remoteEvalUIDs, m.uid) THEN W
    ELSE EmitSteady([W EXCEPT !.callbacks = @ \cup {<<m.id, m.uid>>},
                              !.hist.events = @ + 1], s)

\* default: an opcode the switch does not handle
OnUnknown(W, s) ==
    LET W1 == IF W.sock[s].unk # "none" THEN W
              ELSE [W EXCEPT !.sock[s].unk =
                        IF W.ws = s /\ ConnState(W) = "ready" THEN "ready" ELSE "other"]
    IN  IF W1.ws = NoSock THEN Throw(W1)
        ELSE [WsClose(W1, W1.ws, 4001) EXCEPT !.ws = NoSock]

\* the `message` listener registered by the open listener
Dispatch(W, s, m, strict) ==
    CASE m.op = MalformedOp -> Throw(W)
      [] m.op = HELLO -> OnHello(W, s, strict)
      [] m.op = READY_ACK -> OnReadyAck(W, s)
      [] m.op \in {SEND_ACK, CLUSTER_DATA_UPDATE} -> EmitSteady(W, s)
      [] m.op = CLUSTER_STATUS_UPDATE -> IF m.data # 0 THEN EmitSteady(W, s) ELSE W
      [] m.op = REMOTE_EVAL -> OnRemoteEval(W, s, m)
      [] OTHER -> OnUnknown(W, s)

\* resolve(v) of the promise of eval e
Resolve(W, e, v) ==
    [W EXCEPT !.evals[e].resolves = @ + 1,
              !.evals[e].value = IF W.evals[e].resolves = 0 THEN v ELSE @]

\* (a slip: the listener forgets to remove itself)
GetRemoteEvalDataStays(W, e, m) ==
    IF m.op = MalformedOp THEN Throw(W)
    ELSE IF m.op = REMOTE_EVAL /\ m.id = W.evals[e].cid /\ m.uid = W.evals[e].uid
    THEN LET i == IndexOf(W.remoteEvalUIDs, m.uid, 1)
             W1 == IF i = 0 THEN W ELSE [W EXCEPT !.remoteEvalUIDs[i] = Hole]
         IN  IF W1.ws = NoSock THEN Throw(W1)
             ELSE Resolve(W1, e, m.data)
    ELSE W

\* this.__getRemoteEvalData of eval e, as a `message` listener
GetRemoteEvalData(W, e, m) ==
    IF m.op = MalformedOp THEN Throw(W)
    ELSE IF m.op = REMOTE_EVAL /\ m.id = W.evals[e].cid /\ m.uid = W.evals[e].uid
    THEN LET i == IndexOf(W.remoteEvalUIDs, m.uid, 1)
             W1 == IF i = 0 THEN W ELSE [W EXCEPT !.remoteEvalUIDs[i] = Hole]
         IN  IF W1.ws = NoSock THEN Throw(W1)
             ELSE Resolve([W1 EXCEPT !.sock[W1.ws].listeners =
                                         Without(@, W1.getRemoteEvalData)],
                          e, m.data)
    ELSE W

RECURSIVE RunListeners(_, _, _, _, _)
\* EventEmitter.emit('message'): the listeners registered when the message
\* arrives run in registration order; one that throws ends the emit
RunListeners(W, s, m, ls, strict) ==
    IF ls = <<>> \/ W.exc THEN W
    ELSE LET W1 == IF Head(ls) = 0 THEN Dispatch(W, s, m, strict)
                   ELSE GetRemoteEvalData(W, Head(ls), m)
         IN  RunListeners(W1, s, m, Tail(ls), strict)

\* the `ping` listeners registered by the open listener: this.ws.pong()
RECURSIVE RunPings(_, _, _)
RunPings(W, ls, strict) ==
    IF ls = <<>> \/ W.exc THEN W
    ELSE RunPings(IF Head(ls) = 0
                  THEN SendNoCallback(W, PONG, Msg(PONG, 0, 0, 0), strict)
                  ELSE W,
                  Tail(ls), strict)

\* ----------------------------------------------------- the public methods
\* (a slip: disconnect forgets its argument)
DisconnectKeepsFlag(W, r) ==
    IF W.ws = NoSock THEN Throw(W)
    ELSE [WsClose(W, W.ws, 1000) EXCEPT !.ws = NoSock]

\* disconnect(r); r is "true", "false" or "undefined"
Disconnect(W, r) ==
    IF W.ws = NoSock THEN Throw(W)
    ELSE [WsClose(W, W.ws, 1000) EXCEPT
              !.ws = NoSock,
              !.reconnect = IF r = "undefined" THEN @ ELSE (r = "true")]

\* sendError(err); err is "ok" or "missing"
SendError(W, err, accepted) ==
    LET W1 == IF NotOpen(W) THEN Settle(W, "NotConnected") ELSE W
        W2 == IF err = "missing" THEN Settle(W1, "InvalidArgument") ELSE W1
    IN  Executor(SendWithCallback(W2, ERROR_OP, Msg(ERROR_OP, 0, 0, 0), accepted))

\* sendLog(log): its argument check reads `err`, which sendLog does not define
SendLog(W, log, accepted) ==
    LET W1 == IF NotOpen(W) THEN Settle(W, "NotConnected") ELSE W
        W2 == Throw(W1)
    IN  IF W2.exc THEN Executor(W2)
        ELSE Executor(SendWithCallback(W2, ERROR_OP, Msg(ERROR_OP, 0, 0, 0), accepted))

\* sendStats(...); args is "ok", "missing" (an argument is undefined) or
\* "nonnumeric" (an argument is not a number)
SendStats(W, args, accepted) ==
    LET W1 == IF args = "missing" THEN Settle(W, "InvalidArgument") ELSE W
        W2 == IF args # "ok" THEN Settle(W1, "InvalidArgument") ELSE W1
        W3 == IF NotOpen(W2) THEN Settle(W2, "NotConnected") ELSE W2
    IN  Executor(SendWithCallback(W3, STATS, Msg(STATS, 0, 0, 0), accepted))

\* uid = Date.now()
NewUID(W) == W.now

\* the promise of eval e is not resolved
Pending(W, e) == W.evals[e].resolves = 0

\* a call made now is in flight together with every call still pending
Overlapped(W) ==
    [e \in 1 .. Len(W.evals) |->
        IF Pending(W, e) THEN [W.evals[e] EXCEPT !.alone = FALSE] ELSE W.evals[e]]

NewEval(W, clusterID, uid) ==
    [uid |-> uid, cid |-> clusterID,
     sock |-> W.ws,         \* the socket its listener is registered on
     resolves |-> 0,        \* calls of resolve()
     value |-> 0,           \* the value the promise resolved with
     ready |-> ConnState(W) = "ready",      \* issued while Ready
     alone |-> \A e \in 1 .. Len(W.evals) : ~Pending(W, e),
                            \* no other call was in flight with it
     replies |-> 0,         \* replies to it that arrived on its connection
                            \* while that was the current handle
     first |-> 0]           \* data of the first such reply

\* remoteEval(clusterID, data)
RemoteEval(W, clusterID) ==
    IF NotOpen(W) THEN Throw(W)
    ELSE LET uid == NewUID(W)
             e == Len(W.evals) + 1
             W1 == [W EXCEPT !.remoteEvalUIDs = Append(@, uid),
                             !.evals = Append(Overlapped(W), NewEval(W, clusterID, uid))]
             W2 == SendNoCallback(W1, REMOTE_EVAL, Msg(REMOTE_EVAL, clusterID, uid, 0), FALSE)
         IN  [W2 EXCEPT !.getRemoteEvalData = e,
                        !.sock[W2.ws].listeners = Append(@, e)]

\* (a slip: the reply leaves out the id of the request)
RemoteEvalCallbackNoId(W, cb, v, strict) ==
    SendNoCallback(W, REMOTE_EVAL, Msg(REMOTE_EVAL, 0, cb[2], v), strict)

\* the callback handed out for request cb, called with value v
RemoteEvalCallback(W, cb, v, strict) ==
    SendNoCallback(W, REMOTE_EVAL, Msg(REMOTE_EVAL, cb[1], cb[2], v), strict)

\* ---------------------------------------------------------------- actions
Live == ~crashed

RECURSIVE Sum(_, _)
Sum(f, D) == IF D = {} THEN 0
             ELSE LET x == CHOOSE y \in D : TRUE IN f[x] + Sum(f, D \ {x})

\* frames transmitted on socket s
SentOn(W, s) == Sum(W.sock[s].sent, DOMAIN W.sock[s].sent)

\* frames transmitted on all sockets
TotalSent(W) == Sum([s \in Socks |-> SentOn(W, s)], Socks)

\* what a call of the consumer did
Outcome(name, W0, W1) ==
    [call |-> name,
     result |-> IF W1.exc THEN "throws" ELSE W1.promise,
     frames |-> TotalSent(W1) - TotalSent(W0)]

\* the consumer calls a method; an exception goes to the caller
Call(name, W1) ==
    /\ Commit(W1)
    /\ last' = Outcome(name, World, W1)
    /\ UNCHANGED <<errListener, now, msgs>>

CallDisconnect(r) ==
    /\ Live
    /\ Commit(Disconnect(World, r))
    /\ UNCHANGED <<errListener, now, last, msgs, calls>>

CallSendError(err, accepted) ==
    /\ Live
    /\ calls < MaxCalls
    /\ calls' = calls + 1
    /\ Call(IF err = "ok" THEN "sendError" ELSE "sendErrorInvalid",
            SendError(World, err, accepted))

CallSendLog(accepted) ==
    /\ Live
    /\ calls < MaxCalls
    /\ calls' = calls + 1
    /\ Call("sendLog", SendLog(World, "ok", accepted))

CallSendStats(args, accepted) ==
    /\ Live
    /\ calls < MaxCalls
    /\ calls' = calls + 1
    /\ Call(IF args = "ok" THEN "sendStats" ELSE "sendStatsInvalid",
            SendStats(World, args, accepted))

CallRemoteEval(c) ==
    /\ Live
    /\ Len(evals) < MaxEvals
    /\ UNCHANGED calls
    /\ Call("remoteEval", RemoteEval(World, c))

CallReply(cb, v, strict) ==
    /\ Live
    /\ calls < MaxCalls
    /\ cb \in callbacks
    /\ calls' = calls + 1
    /\ Call("reply", RemoteEvalCallback(World, cb, v, strict))

\* the consumer calls connect()
CallConnect ==
    /\ Live
    /\ hist.connects < MaxConns
    /\ Commit(Connect(World))
    /\ UNCHANGED <<errListener, now, last, msgs, calls>>

\* a reconnect timer fires: () => this.connect()
TimerFire ==
    /\ Live
    /\ timers > 0
    /\ hist.connects < MaxConns
    /\ Commit(Connect([World EXCEPT !.timers = @ - 1]))
    /\ UNCHANGED <<errListener, now, last, msgs, calls>>

\* the transport reports that socket s is open
Open(s) ==
    /\ Live
    /\ sock[s].rs = "connecting"
    /\ Commit(Uncaught(OnOpen([World EXCEPT !.sock[s].rs = "open"], s)))
    /\ UNCHANGED <<errListener, now, last, msgs, calls>>

\* the library drops a socket that failed or closed: no message reaches its
\* listeners any more
Dead(W, s, r) == [W EXCEPT !.sock[s].rs = r, !.sock[s].listeners = <<>>]

\* socket s reports an error: a failed or aborted handshake, or a frame the
\* receiver rejects; the socket is then on its way to closed
Error(s) ==
    /\ Live
    /\ sock[s].rs \in {"connecting", "open", "closing", "aborted"}
    /\ Commit(Uncaught(OnError(Dead(World, s, "errored"), s)))
    /\ UNCHANGED <<errListener, now, last, msgs, calls>>

\* the peer starts the closing handshake of socket s
PeerClose(s) ==
    /\ Live
    /\ sock[s].rs = "open"
    /\ Commit([World EXCEPT !.sock[s].rs = "closing"])
    /\ UNCHANGED <<errListener, now, last, msgs, calls>>

\* socket s reports that it is closed
Close(s) ==
    /\ Live
    /\ sock[s].rs \in {"open", "closing", "errored"}
    /\ Commit(Uncaught(OnClose(Dead(World, s, "closed"), s)))
    /\ UNCHANGED <<errListener, now, last, msgs, calls>>

\* message m on socket s answers eval e
IsReply(W, e, s, m) ==
    /\ m.op = REMOTE_EVAL
    /\ W.evals[e].sock = s
    /\ W.evals[e].cid = m.id
    /\ W.evals[e].uid = m.uid

\* history: the replies that arrive on the current handle, and the requests
\* of other clusters
Arrives(W, s, m) ==
    [W EXCEPT !.evals = [e \in 1 .. Len(W.evals) |->
        IF IsReply(W, e, s, m) /\ W.ws = s
        THEN [W.evals[e] EXCEPT !.replies = @ + 1,
                                !.first = IF W.evals[e].replies = 0 THEN m.data ELSE @]
        ELSE W.evals[e]],
              !.hist.reqs =
                  IF /\ m.op = REMOTE_EVAL
                     /\ \A i \in 1 .. Len(W.remoteEvalUIDs) : W.remoteEvalUIDs[i] # m.uid
                     /\ Head(W.sock[s].listeners) = 0
                  THEN @ + 1 ELSE @]

\* a message arrives on socket s
Message(s, m, strict) ==
    /\ Live
    /\ sock[s].rs \in {"open", "closing"}
    /\ sock[s].listeners # <<>>
    /\ Commit(Uncaught(RunListeners(Arrives(World, s, m), s, m, sock[s].listeners, strict)))
    /\ UNCHANGED <<errListener, now, last, calls>>

\* a message the aggregator may send any number of times: at most n in a run
Unsolicited(s, m, strict, n) ==
    /\ msgs < n
    /\ msgs' = msgs + 1
    /\ Message(s, m, strict)

\* a ping arrives on socket s
Ping(s, strict) ==
    /\ Live
    /\ msgs < MaxMsgs
    /\ sock[s].rs \in {"open", "closing"}
    /\ Commit(Uncaught(RunPings([World EXCEPT !.sock[s].pings = @ + 1],
                                 sock[s].listeners, strict)))
    /\ msgs' = msgs + 1
    /\ UNCHANGED <<errListener, now, last, calls>>

\* Date.now() advances; it is observed only through the uids issued
Tick ==
    /\ Live
    /\ now < MaxClock
    /\ \E e \in 1 .. Len(evals) : evals[e].uid = now
    /\ now' = now + 1
    /\ UNCHANGED <<ws, reconnect, waitTime, remoteEvalUIDs, getRemoteEvalData,
                   callbacks, timers, sock, evals, crashed, errListener, hist,
                   last, msgs, calls>>

Next ==
    \/ CallConnect
    \/ TimerFire
    \/ \E s \in Socks : Open(s)
    \/ \E s \in Socks : Error(s)
    \/ \E s \in Socks : PeerClose(s)
    \/ \E s \in Socks : Close(s)
    \/ \E s \in Socks, m \in Msgs, strict \in BOOLEAN : Unsolicited(s, m, strict, MaxMsgs)
    \/ \E s \in Socks, strict \in BOOLEAN : Ping(s, strict)
    \/ \E r \in {"true", "false", "undefined"} : CallDisconnect(r)
    \/ \E err \in {"ok", "missing"}, accepted \in BOOLEAN : CallSendError(err, accepted)
    \/ \E accepted \in BOOLEAN : CallSendLog(accepted)
    \/ \E args \in {"ok", "missing", "nonnumeric"}, accepted \in BOOLEAN :
            CallSendStats(args, accepted)
    \/ \E c \in ClusterIDs : CallRemoteEval(c)
    \/ \E cb \in ClusterIDs \X UIDs, v \in Values, strict \in BOOLEAN :
            CallReply(cb, v, strict)
    \/ Tick

Spec == Init /\ [][Next]_vars

\* ------------------------------------------------------- partial programs
\* The state space of Next grows too fast to be explored whole, so each
\* property is checked on a part of it: a choice of the operations and of
\* the traffic the aggregator sends.
HelloMsg == Msg(HELLO, 0, 0, 0)
ReadyAckMsg == Msg(READY_ACK, 0, 0, 0)
UnknownMsg == Msg(UnknownOp, 0, 0, 0)

\* an aggregator that follows the protocol: one HELLO per connection, one
\* READY_ACK in answer to an IDENTIFY
ServerHello(s, strict) ==
    /\ sock[s].hello = 0
    /\ Message(s, HelloMsg, strict)
    /\ UNCHANGED msgs

ServerReadyAck(s) ==
    /\ sock[s].sent[IDENTIFY] > 0
    /\ sock[s].ready = 0
    /\ Message(s, ReadyAckMsg, FALSE)
    /\ UNCHANGED msgs

MaxUnknown == 1     \* messages with an unhandled opcode

\* connection life cycle
Lifecycle ==
    \/ CallConnect
    \/ TimerFire
    \/ \E s \in Socks : Open(s)
    \/ \E s \in Socks : Error(s)
    \/ \E s \in Socks : Close(s)
    \/ \E r \in {"true", "false", "undefined"} : CallDisconnect(r)

\* life cycle and handshake with an orderly aggregator
NextBackoff ==
    \/ Lifecycle
    \/ \E s \in Socks, strict \in BOOLEAN : ServerHello(s, strict)
    \/ \E s \in Socks : ServerReadyAck(s)

SpecBackoff == Init /\ [][NextBackoff]_vars

\* the same, and messages with an unhandled opcode on connections whose
\* handshake has completed
NextConn ==
    \/ NextBackoff
    \/ \E s \in Socks :
            /\ sock[s].hs = "ready"
            /\ Unsolicited(s, UnknownMsg, FALSE, MaxUnknown)

SpecConn == Init /\ [][NextConn]_vars

\* remote evaluation, one call at a time, on the first connection, which
\* may be lost at any time
EvalReplies == 2    \* REMOTE_EVAL messages

\* REMOTE_EVAL messages that carry the uid of a call made so far: replies,
\* repeated replies, replies naming another cluster
EvalMsgs == {m \in Msgs : /\ m.op = REMOTE_EVAL
                          /\ \E e \in 1 .. Len(evals) : evals[e].uid = m.uid}

NextEval ==
    \/ hist.connects = 0 /\ CallConnect
    \/ \E s \in Socks : Open(s)
    \/ \E s \in Socks : Error(s)
    \/ \E s \in Socks : Close(s)
    \/ CallDisconnect("undefined")
    \/ \E s \in Socks, strict \in BOOLEAN : ServerHello(s, strict)
    \/ \E s \in Socks : ServerReadyAck(s)
    \/ \E c \in ClusterIDs :
            /\ \A e \in 1 .. Len(evals) : ~Pending(World, e)
            /\ CallRemoteEval(c)
    \/ \E s \in Socks, m \in EvalMsgs : Unsolicited(s, m, FALSE, EvalReplies)
    \/ Tick

SpecEval == Init /\ [][NextEval]_vars

\* the send methods and remoteEval on the first connection, in every state
\* it goes through
NextCalls ==
    \/ hist.connects = 0 /\ CallConnect
    \/ \E s \in Socks : Open(s)
    \/ \E s \in Socks : Error(s)
    \/ \E s \in Socks : PeerClose(s)
    \/ \E s \in Socks : Close(s)
    \/ CallDisconnect("undefined")
    \/ \E s \in Socks, strict \in BOOLEAN : ServerHello(s, strict)
    \/ \E s \in Socks : ServerReadyAck(s)
    \/ \E err \in {"ok", "missing"}, accepted \in BOOLEAN : CallSendError(err, accepted)
    \/ \E accepted \in BOOLEAN : CallSendLog(accepted)
    \/ \E args \in {"ok", "missing", "nonnumeric"}, accepted \in BOOLEAN :
            CallSendStats(args, accepted)
    \/ \E c \in ClusterIDs : CallRemoteEval(c)
    \/ Tick

SpecCalls == Init /\ [][NextCalls]_vars

\* life cycle of one or two connections and any handshake traffic
HandshakeMsgs == {HelloMsg, ReadyAckMsg, UnknownMsg}

NextHandshake ==
    \/ Lifecycle
    \/ \E s \in Socks : PeerClose(s)
    \/ \E s \in Socks, m \in HandshakeMsgs, strict \in BOOLEAN :
            Unsolicited(s, m, strict, MaxMsgs)

SpecHandshake == Init /\ [][NextHandshake]_vars

\* ------------------------------------------------------------- properties
Active == {s \in Socks : sock[s].rs \in {"connecting", "open"}}

\* C1: at most one connection created by the client is connecting or open
C1_OneActiveConnection == Cardinality(Active) <= 1

\* C2 as stated: after N disconnect signals with no completed handshake in
\* between, waitTime is 3 * 1.5^N
C2_WaitSinceHandshake ==
    Live => waitTime * Pow(2, hist.discHs) = BaseWait * Pow(3, hist.discHs)

\* C2 amended: after N disconnect signals (error or close, in any mix) with
\* no transport open signal in between, waitTime is 3 * 1.5^N; no ceiling
C2_WaitSinceOpen ==
    waitTime * Pow(2, hist.discOpen) = BaseWait * Pow(3, hist.discOpen)

\* three disconnect signals in a row, so both an error and a close among them
C2_Witness == hist.discOpen >= 3 /\ waitTime > BaseWait

Opens == \E s \in Socks : sock[s].rs = "connecting" /\ sock'[s].rs = "open"

HandshakeCompletes == \E s \in Socks : sock[s].hs # "ready" /\ sock'[s].hs = "ready"

\* C3 as stated: waitTime decreases only in a step that completes a handshake
C3_DecreaseOnlyAtHandshake ==
    [][waitTime' < waitTime => HandshakeCompletes]_vars

\* C3 amended: waitTime decreases only at a transport open signal; every open
\* signal sets it to the base value 3 whatever it had grown to; completing
\* the handshake leaves it as it is
C3_ResetAtOpen ==
    [][/\ waitTime' < waitTime => Opens
       /\ Opens => waitTime' = BaseWait
       /\ HandshakeCompletes => waitTime' = waitTime]_vars

\* a connection opened after the last disconnect signal: the open signal
\* found waitTime grown and reset it
C3_Witness ==
    /\ \E s \in Socks : sock[s].rs \in {"errored", "closed"}
    /\ \E s \in Socks : sock[s].rs = "open"
    /\ hist.discOpen = 0
    /\ waitTime = BaseWait

\* C4: a connection whose handshake completed has emitted exactly one `ready`
C4_ExactlyOneReady ==
    \A s \in Socks : sock[s].hs = "ready" => sock[s].ready = 1

\* C5: on each connection IDENTIFY is sent at most once, and not before a
\* HELLO has arrived on it
C5_IdentifyOnce ==
    \A s \in Socks :
        /\ sock[s].sent[IDENTIFY] <= 1
        /\ sock[s].sent[IDENTIFY] >= 1 => sock[s].hello >= 1

Closes4001(s) ==
    /\ sock[s].closeCode = 4001
    /\ sock[s].rs # "closed"
    /\ sock'[s].rs = "closed"

ListenerOf(e) == \E i \in 1 .. Len(sock[evals[e].sock].listeners) :
                    sock[evals[e].sock].listeners[i] = e

\* C6: a remoteEval issued while Ready, with no other call in flight, whose
\* reply arrives on its connection while that is still the current handle:
\* the promise has resolved once, with the data of the first reply, however
\* many identical replies followed; its listener is gone and its uid is out
\* of the pending set
C6_SingleEvalResolvesOnce ==
    \A e \in 1 .. Len(evals) :
        (evals[e].ready /\ evals[e].alone /\ evals[e].replies >= 1) =>
            /\ evals[e].resolves = 1
            /\ evals[e].value = evals[e].first
            /\ ~ListenerOf(e)
            /\ remoteEvalUIDs[e] = Hole

\* the reply has arrived twice
C6_Witness ==
    \E e \in 1 .. Len(evals) :
        /\ evals[e].ready /\ evals[e].alone
        /\ evals[e].replies >= 2
        /\ evals[e].resolves = 1
        /\ evals[e].value = evals[e].first

\* C7: two entries of the pending set never hold the same correlation id
C7_DistinctPendingUIDs ==
    \A i, j \in 1 .. Len(remoteEvalUIDs) :
        (i # j /\ remoteEvalUIDs[i] # Hole /\ remoteEvalUIDs[j] # Hole)
            => remoteEvalUIDs[i] # remoteEvalUIDs[j]

\* C8: sendStats with a missing or non-numeric argument rejects with
\* InvalidArgument and transmits no frame
C8_InvalidStatsSendsNothing ==
    last.call = "sendStatsInvalid" =>
        (last.result = "InvalidArgument" /\ last.frames = 0)

\* C9: outside Ready, sendError, sendLog and sendStats called with valid
\* arguments reject with NotConnected and transmit nothing, and remoteEval
\* registers no call
C9_NotReadyNotConnected ==
    [][ConnState(World) # "ready" =>
          /\ (calls' = calls + 1 /\ last'.call \in {"sendError", "sendLog", "sendStats"})
                => (last'.result = "NotConnected" /\ last'.frames = 0)
          /\ Len(evals') = Len(evals)]_vars

\* socket s delivers its error signal / its close signal
ErrorSignal(s) == sock[s].rs # "errored" /\ sock'[s].rs = "errored"

CloseSignal(s) == sock[s].rs # "closed" /\ sock'[s].rs = "closed"

C12_SendTransmitsOneFrame ==
    [][(/\ ConnState(World) = "ready"
        /\ calls' = calls + 1
        /\ last'.call \in {"sendError", "sendLog", "sendStats"})
          => /\ last'.result \in {"resolved", "wsError"}
             /\ last'.result = "resolved" => last'.frames = 1
             /\ last'.frames <= 1]_vars

\* one connection at a time, from connect() or from a reconnect timer, and
\* pings
NextPing ==
    \/ Cardinality(Active) = 0 /\ CallConnect
    \/ Cardinality(Active) = 0 /\ TimerFire
    \/ \E s \in Socks : Open(s)
    \/ \E s \in Socks : Error(s)
    \/ \E s \in Socks : Close(s)
    \/ \E r \in {"true", "false", "undefined"} : CallDisconnect(r)
    \/ \E s \in Socks, strict \in BOOLEAN : Ping(s, strict)

SpecPing == Init /\ [][NextPing]_vars

\* C13: each connection has sent as many pongs as it has received pings
C13_OnePongPerPing ==
    \A s \in Socks : sock[s].sent[PONG] = sock[s].pings

\* C14: in every state the client can be in, disconnect(r) returns without
\* throwing and leaves no handle and the flag equal to r, or unchanged when
\* r is omitted
C14_DisconnectInAnyState ==
    Live =>
        \A r \in {"true", "false", "undefined"} :
            LET W1 == Disconnect(World, r) IN
            /\ ~W1.exc
            /\ W1.ws = NoSock
            /\ W1.reconnect = (IF r = "undefined" THEN reconnect ELSE r = "true")

\* remote evaluation with calls in flight together, on the first connection
NextEvals ==
    \/ hist.connects = 0 /\ CallConnect
    \/ \E s \in Socks : Open(s)
    \/ \E s \in Socks : Close(s)
    \/ \E s \in Socks, strict \in BOOLEAN : ServerHello(s, strict)
    \/ \E s \in Socks : ServerReadyAck(s)
    \/ \E c \in ClusterIDs : CallRemoteEval(c)
    \/ \E s \in Socks, m \in EvalMsgs : Unsolicited(s, m, FALSE, EvalReplies)
    \/ Tick

SpecEvals == Init /\ [][NextEvals]_vars

\* the calls made so far have different correlation ids
DistinctUIDs ==
    \A e, f \in 1 .. Len(evals) : e # f => evals[e].uid # evals[f].uid

\* C15: among calls with distinct correlation ids issued while Ready on the
\* connection that is still the current handle, every call whose reply has
\* arrived has resolved once with the data of its own reply and has lost its
\* listener and its pending entry, and every call still waiting has kept both
C15_ConcurrentEvalsResolveOwnReply ==
    \A e \in 1 .. Len(evals) :
        (DistinctUIDs /\ evals[e].ready /\ evals[e].sock = ws) =>
            /\ evals[e].replies >= 1 =>
                /\ evals[e].resolves = 1
                /\ evals[e].value = evals[e].first
                /\ ~ListenerOf(e)
                /\ remoteEvalUIDs[e] = Hole
            /\ evals[e].replies = 0 =>
                /\ evals[e].resolves = 0
                /\ ListenerOf(e)
                /\ remoteEvalUIDs[e] = evals[e].uid

\* one connection and any traffic of handshake and steady-state messages
GateMsgs ==
    {HelloMsg, ReadyAckMsg, Msg(SEND_ACK, 0, 0, 0), Msg(CLUSTER_DATA_UPDATE, 0, 0, 0),
     Msg(CLUSTER_STATUS_UPDATE, 0, 0, 1), Msg(REMOTE_EVAL, 7, ForeignUID, 1)}

NextGate ==
    \/ hist.connects = 0 /\ CallConnect
    \/ \E s \in Socks : Open(s)
    \/ \E s \in Socks : Error(s)
    \/ \E s \in Socks : Close(s)
    \/ \E s \in Socks, m \in GateMsgs, strict \in BOOLEAN :
            Unsolicited(s, m, strict, MaxMsgs)

SpecGate == Init /\ [][NextGate]_vars

\* C16: no connection has emitted `send`, `clustersDataUpdate`,
\* `clusterStatusUpdate` or `remoteEval` before its handshake had completed,
\* nor `ready` without a HELLO before it
C16_HandshakeGating ==
    \A s \in Socks :
        /\ ~sock[s].early
        /\ sock[s].ready >= 1 => sock[s].hello >= 1

\* requests of other clusters and this client's own calls, on the first
\* connection, which the consumer may close at any time
RequestUIDs == {1, ForeignUID}

RequestMsgs == {Msg(REMOTE_EVAL, i, u, 1) : i \in ClusterIDs, u \in RequestUIDs}

NextRespond ==
    \/ hist.connects = 0 /\ CallConnect
    \/ \E s \in Socks : Open(s)
    \/ \E s \in Socks : Close(s)
    \/ CallDisconnect("undefined")
    \/ \E s \in Socks : ServerHello(s, FALSE)
    \/ \E s \in Socks : ServerReadyAck(s)
    \/ ConnState(World) = "ready" /\ Len(evals) = 0 /\ CallRemoteEval(7)
    \/ \E s \in Socks, m \in RequestMsgs :
            sock[s].hs = "ready" /\ Unsolicited(s, m, FALSE, MaxMsgs)
    \/ \E cb \in ClusterIDs \X RequestUIDs, v \in Values, strict \in BOOLEAN :
            CallReply(cb, v, strict)

SpecRespond == Init /\ [][NextRespond]_vars

\* the consumer calls the callback of request cb with value v
Replies(cb, v) == \E strict \in BOOLEAN : CallReply(cb, v, strict)

\* C17 as stated: a REMOTE_EVAL message emits one `remoteEval` event unless
\* its uid is pending, and then none; every call of a callback transmits
\* exactly one op-9 frame with the id and uid of its request
C17_CallbackAlwaysReplies ==
    /\ [](hist.events = hist.reqs)
    /\ [][\A cb \in ClusterIDs \X RequestUIDs, v \in Values :
            Replies(cb, v) =>
                /\ last'.frames = 1
                /\ \E s \in Socks :
                      /\ sock'[s].sent[REMOTE_EVAL] = sock[s].sent[REMOTE_EVAL] + 1
                      /\ sock'[s].lastEval = Msg(REMOTE_EVAL, cb[1], cb[2], v)]_vars

\* C17 amended: as stated for the events; a call of a callback made while
\* the current handle is an open socket transmits exactly one op-9 frame on
\* that socket, with the id and uid of its request and the value given; a
\* call made with no handle, or with a handle that is not open, transmits
\* nothing
C17_CallbackRepliesWhileOpen ==
    /\ [](hist.events = hist.reqs)
    /\ [][\A cb \in ClusterIDs \X RequestUIDs, v \in Values :
            Replies(cb, v) =>
                IF ~NotOpen(World)
                THEN /\ last'.frames = 1
                     /\ last'.result # "throws"
                     /\ sock'[ws].sent[REMOTE_EVAL] = sock[ws].sent[REMOTE_EVAL] + 1
                     /\ sock'[ws].lastEval = Msg(REMOTE_EVAL, cb[1], cb[2], v)
                ELSE /\ last'.frames = 0
                     /\ sock' = sock]_vars

\* a message with a pending uid was ignored, two requests made two events,
\* and a callback has been called and has sent its frame
C17_Witness ==
    /\ msgs > hist.reqs
    /\ hist.events >= 2
    /\ Cardinality(callbacks) >= 2
    /\ last.call = "reply"
    /\ last.frames = 1

\* a remote evaluation whose connection is lost or given up, and the
\* connections the consumer makes once the handle is cleared
NextLate ==
    \/ ws = NoSock /\ CallConnect
    \/ \E s \in Socks : Open(s)
    \/ \E s \in Socks : Error(s)
    \/ \E s \in Socks : Close(s)
    \/ CallDisconnect("undefined")
    \/ \E s \in Socks : ServerHello(s, FALSE)
    \/ \E s \in Socks : ServerReadyAck(s)
    \/ ConnState(World) = "ready" /\ Len(evals) = 0 /\ CallRemoteEval(7)
    \/ \E s \in Socks, m \in EvalMsgs : Unsolicited(s, m, FALSE, EvalReplies)

SpecLate == Init /\ [][NextLate]_vars

\* C18: a call whose connection is no longer the current handle is not
\* resolved by any later step
C18_NoResolveAfterInvalidation ==
    [][\A e \in 1 .. Len(evals) :
          evals[e].sock # ws => evals'[e].resolves = evals[e].resolves]_vars

\* C19: at most one reconnect timer is armed and not yet fired
C19_AtMostOneTimer == timers <= 1

\* life cycle, handshake and pings
NextStale ==
    \/ NextBackoff
    \/ \E s \in Socks, strict \in BOOLEAN : Ping(s, strict)

SpecStale == Init /\ [][NextStale]_vars

\* socket s delivers a message or a ping
MessageSignal(s) ==
    \/ sock'[s].hello # sock[s].hello
    \/ sock'[s].ready # sock[s].ready
    \/ sock'[s].pings # sock[s].pings

\* C20: a message, ping, error or close of a socket older than the current
\* handle leaves the handle as it is and transmits nothing on it
C20_StaleSignalsLeaveHandle ==
    [][\A s \in Socks :
          (/\ ws # NoSock
           /\ s < ws
           /\ MessageSignal(s) \/ ErrorSignal(s) \/ CloseSignal(s))
              => /\ ws' = ws
                 /\ sock'[ws].sent = sock[ws].sent]_vars

====
